---- MODULE Spec2Model ----
(***************************************************************************)
(* A model of python-chem: ChemicalCompound (chemical_compound.py),        *)
(* Reaction and ReactionSystem (reaction.py) and ChemicalCalculator        *)
(* (chem_calculator.py).                                                   *)
(*                                                                         *)
(* Python floats are IEEE-754 binary64 numbers.  They are modelled here    *)
(* exactly, for finite values away from overflow and underflow: a float is *)
(* a record [s, e, m] of value (-1)^s * m * 2^e, with m an odd natural     *)
(* number of at most 53 bits kept as a little-endian sequence of 14-bit    *)
(* limbs (TLC's integers are 32 bits wide), and every operation rounds its *)
(* exact result to nearest, ties to even.  The sign of zero is not kept.   *)
(***************************************************************************)
EXTENDS Integers, Sequences, FiniteSets, TLC

----------------------------------------------------------------------------
(* Natural numbers of any size: little-endian limb sequences, <<>> is 0.    *)

LimbBits == 15 - 1
Base == 2 ^ LimbBits
Precision == 52 + 1

Pow2(n) == 2 ^ n

Min(a, b) == IF a < b THEN a ELSE b

RECURSIVE BNorm(_)
BNorm(a) ==
    IF a = <<>> THEN a
    ELSE IF a[Len(a)] = 0 THEN BNorm(SubSeq(a, 1, Len(a) - 1))
    ELSE a

Limb(a, i) == IF i <= Len(a) THEN a[i] ELSE 0

RECURSIVE BAddFrom(_, _, _, _)
BAddFrom(a, b, i, c) ==
    IF i > Len(a) /\ i > Len(b)
    THEN (IF c = 0 THEN <<>> ELSE <<c>>)
    ELSE LET s == Limb(a, i) + Limb(b, i) + c
         IN  <<s % Base>> \o BAddFrom(a, b, i + 1, s \div Base)

BAdd(a, b) == BAddFrom(a, b, 1, 0)

\* a - b for a >= b
RECURSIVE BSubFrom(_, _, _, _)
BSubFrom(a, b, i, c) ==
    IF i > Len(a) THEN <<>>
    ELSE LET s == Limb(a, i) - Limb(b, i) - c
         IN  IF s < 0
             THEN <<s + Base>> \o BSubFrom(a, b, i + 1, 1)
             ELSE <<s>> \o BSubFrom(a, b, i + 1, 0)

BSub(a, b) == BNorm(BSubFrom(a, b, 1, 0))

\* -1, 0, 1 as a < b, a = b, a > b; a and b normalised
RECURSIVE BCmpFrom(_, _, _)
BCmpFrom(a, b, i) ==
    IF i = 0 THEN 0
    ELSE IF a[i] < b[i] THEN -1
    ELSE IF a[i] > b[i] THEN 1
    ELSE BCmpFrom(a, b, i - 1)

BCmp(a, b) ==
    IF Len(a) < Len(b) THEN -1
    ELSE IF Len(a) > Len(b) THEN 1
    ELSE BCmpFrom(a, b, Len(a))

\* a * k for 0 <= k <= Base
RECURSIVE BMulSmallFrom(_, _, _, _)
BMulSmallFrom(a, k, i, c) ==
    IF i > Len(a)
    THEN (IF c = 0 THEN <<>> ELSE <<c % Base>> \o (IF c \div Base = 0 THEN <<>> ELSE <<c \div Base>>))
    ELSE LET s == a[i] * k + c
         IN  <<s % Base>> \o BMulSmallFrom(a, k, i + 1, s \div Base)

BMulSmall(a, k) == BNorm(BMulSmallFrom(a, k, 1, 0))

RECURSIVE BMulRec(_, _)
BMulRec(a, b) ==
    IF b = <<>> THEN <<>>
    ELSE BAdd(BMulSmall(a, Head(b)), <<0>> \o BMulRec(a, Tail(b)))

BMul(a, b) == BNorm(BMulRec(a, b))

\* quotient and remainder of a by k, 1 <= k <= Base
DivLimb(hi, limb, k) ==
    [q |-> <<(hi.r * Base + limb) \div k>> \o hi.q, r |-> (hi.r * Base + limb) % k]

RECURSIVE BDivRem(_, _)
BDivRem(a, k) ==
    IF a = <<>> THEN [q |-> <<>>, r |-> 0]
    ELSE DivLimb(BDivRem(Tail(a), k), Head(a), k)

BDivSmall(a, k) == BNorm(BDivRem(a, k).q)

Zeros(n) == [j \in 1..n |-> 0]

BShl(a, n) ==
    IF a = <<>> THEN a
    ELSE Zeros(n \div LimbBits) \o BMulSmall(a, Pow2(n % LimbBits))

BShr(a, n) ==
    IF n \div LimbBits >= Len(a) THEN <<>>
    ELSE BDivSmall(SubSeq(a, n \div LimbBits + 1, Len(a)), Pow2(n % LimbBits))

RECURSIVE IntBitLen(_)
IntBitLen(k) == IF k = 0 THEN 0 ELSE 1 + IntBitLen(k \div 2)

BitLen(a) == IF a = <<>> THEN 0 ELSE (Len(a) - 1) * LimbBits + IntBitLen(a[Len(a)])

BIsOdd(a) == a # <<>> /\ a[1] % 2 = 1

RECURSIVE BFromInt(_)
BFromInt(k) == IF k = 0 THEN <<>> ELSE <<k % Base>> \o BFromInt(k \div Base)

----------------------------------------------------------------------------
(* binary64 floats                                                          *)

FZero == [s |-> 0, e |-> 0, m |-> <<>>]

\* the canonical record of (-1)^s * m * 2^e, m # 0 of at most 53 bits:
\* trailing zero bits move into the exponent
RECURSIVE StripZeros(_, _, _)
StripZeros(s, m, e) ==
    IF m[1] = 0 THEN StripZeros(s, Tail(m), e + LimbBits)
    ELSE IF m[1] % 2 = 0 THEN StripZeros(s, BDivSmall(m, 2), e + 1)
    ELSE [s |-> s, e |-> e, m |-> m]

\* m, of more than 53 bits, cut by d bits: q and h are m without its last d
\* and d - 1 bits; half-way cases go to the even neighbour
RoundCut(m, d, q, h) ==
    IF BIsOdd(h) /\ (BShl(h, d - 1) # m \/ BIsOdd(q)) THEN BAdd(q, <<1>>) ELSE q

RoundBits(s, m, e, d) ==
    StripZeros(s, IF d <= 0 THEN m ELSE RoundCut(m, d, BShr(m, d), BShr(m, d - 1)),
               IF d <= 0 THEN e ELSE e + d)

\* (-1)^s * m * 2^e rounded to 53 bits, to nearest, ties to even
RoundF(s, m, e) == IF m = <<>> THEN FZero ELSE RoundBits(s, m, e, BitLen(m) - Precision)

FromInt(k) == RoundF(IF k < 0 THEN 1 ELSE 0, BFromInt(IF k < 0 THEN -k ELSE k), 0)

Scaled(f, e) == IF f.m = <<>> THEN f ELSE [f EXCEPT !.e = f.e + e]

\* k * 2^e
Dyadic(k, e) == Scaled(FromInt(k), e)

FNeg(x) == IF x.m = <<>> THEN x ELSE [x EXCEPT !.s = 1 - x.s]

FMul(x, y) ==
    IF x.m = <<>> \/ y.m = <<>> THEN FZero
    ELSE RoundF((x.s + y.s) % 2, BMul(x.m, y.m), x.e + y.e)

\* x + y for x and y of mantissas mx and my at the common exponent e, mx
\* being to my as c is to 0
AddAligned(x, y, e, mx, my, c) ==
    IF x.s # y.s /\ c = 0 THEN FZero
    ELSE RoundF(IF x.s = y.s \/ c > 0 THEN x.s ELSE y.s,
                IF x.s = y.s THEN BAdd(mx, my)
                ELSE IF c > 0 THEN BSub(mx, my) ELSE BSub(my, mx),
                e)

AddAt(x, y, e, mx, my) == AddAligned(x, y, e, mx, my, BCmp(mx, my))

AddNear(x, y, e) == AddAt(x, y, e, BShl(x.m, x.e - e), BShl(y.m, y.e - e))

\* hx and hy are the exponents of the leading bits of x and y: more than 64
\* apart, the smaller float is below a quarter ulp of the larger, and the
\* sum rounds to the larger; otherwise the exact sum is rounded
AddByTop(x, y, hx, hy) ==
    IF hx - hy > Precision + 11 THEN x
    ELSE IF hy - hx > Precision + 11 THEN y
    ELSE AddNear(x, y, Min(x.e, y.e))

FAdd(x, y) ==
    IF x.m = <<>> THEN y
    ELSE IF y.m = <<>> THEN x
    ELSE AddByTop(x, y, x.e + BitLen(x.m), y.e + BitLen(y.m))

FSub(x, y) == FAdd(x, FNeg(y))

\* x / k for an integer 1 <= k <= Base: the quotient to 70 more bits, with a
\* last bit that says whether the division left a remainder
WithSticky(q, r) == IF r = 0 THEN BMulSmall(q, 2) ELSE BAdd(BMulSmall(q, 2), <<1>>)

DivRounded(x, dr) == RoundF(x.s, WithSticky(BNorm(dr.q), dr.r), x.e - 5 * LimbBits - 1)

FDivInt(x, k) ==
    IF x.m = <<>> THEN FZero ELSE DivRounded(x, BDivRem(BShl(x.m, 5 * LimbBits), k))

\* x ** n for an integer n >= 0: the exact power, rounded once
RECURSIVE BPow(_, _)
BPow(a, n) == IF n = 0 THEN <<1>> ELSE BMul(a, BPow(a, n - 1))

FPow(x, n) ==
    IF n = 0 THEN FromInt(1)
    ELSE IF x.m = <<>> THEN FZero
    ELSE RoundF(IF n % 2 = 0 THEN 0 ELSE x.s, BPow(x.m, n), x.e * n)

IsNegative(d) == d.m # <<>> /\ d.s = 1
FLt(x, y) == IsNegative(FSub(x, y))
FLe(x, y) == ~FLt(y, x)

\* max(0.0, x)
FMax0(x) == IF FLt(FZero, x) THEN x ELSE FZero

----------------------------------------------------------------------------
(* State.  A Python object that may be None is a sequence of length 0 or 1. *)

VARIABLES
    cobj,        \* a ChemicalCompound: [formula, molar_mass, composition]
    cinit,       \* that compound as its constructor left it
    creturns,    \* what each calculate_molar_mass() call on it returned
    rx,          \* a Reaction: [reactants, products, rate_constant, reaction_order]
    rate_prev,   \* the calculate_rate call before the last: None or
                 \* [missing, ret], missing the reactants its mapping lacked
    rate_last,   \* the last calculate_rate call: None or [arg, ret]
    stoich_ret,  \* what get_stoichiometry_matrix() returned: None or the dict
    calc,        \* a ChemicalCalculator: [objs, compounds, reactions]
    call,        \* how the last simulation call on calc ended
    system,      \* a ReactionSystem: [reactions, all_compounds]
    initial_concentrations,  \* simulate's first argument
    time_points,             \* simulate's second argument
    concentrations,          \* simulate's local dict of lists
    idx,         \* simulate's loop variable i
    sim_pc,      \* where simulate is: "ready", "loop", "returned"
    result,      \* what the last simulate call returned
    prev_result, \* what the simulate call before it returned
    calls        \* how many simulate calls have started

compound_vars == <<cobj, cinit, creturns>>
reaction_vars == <<rx, rate_prev, rate_last, stoich_ret>>
calc_vars == <<calc, call>>
sim_inputs == <<system, initial_concentrations, time_points>>
sim_vars == <<system, initial_concentrations, time_points, concentrations, idx,
              sim_pc, result, prev_result, calls>>
vars == <<cobj, cinit, creturns, rx, rate_prev, rate_last, stoich_ret, calc, call,
          system, initial_concentrations, time_points, concentrations, idx,
          sim_pc, result, prev_result, calls>>

None == <<>>
Some(x) == <<x>>

----------------------------------------------------------------------------
(* chemical_compound.py                                                     *)

\* a formula is a sequence of one-character strings
UpperCase == {"A", "B", "C", "D", "E", "F", "G", "H", "I", "J", "K", "L", "M",
              "N", "O", "P", "Q", "R", "S", "T", "U", "V", "W", "X", "Y", "Z"}
LowerCase == {"a", "b", "c", "d", "e", "f", "g", "h", "i", "j", "k", "l", "m",
              "n", "o", "p", "q", "r", "s", "t", "u", "v", "w", "x", "y", "z"}
DigitValue ==
    ("0" :> 0) @@ ("1" :> 1) @@ ("2" :> 2) @@ ("3" :> 3) @@ ("4" :> 4) @@
    ("5" :> 5) @@ ("6" :> 6) @@ ("7" :> 7) @@ ("8" :> 8) @@ ("9" :> 9)
Digits == DOMAIN DigitValue

\* int(count) of a string of digits
RECURSIVE ParseInt(_)
ParseInt(ds) ==
    IF ds = <<>> THEN 0
    ELSE 10 * ParseInt(SubSeq(ds, 1, Len(ds) - 1)) + DigitValue[ds[Len(ds)]]

RECURSIVE DigitsEnd(_, _)
DigitsEnd(f, i) == IF i <= Len(f) /\ f[i] \in Digits THEN DigitsEnd(f, i + 1) ELSE i

\* re.findall(r'([A-Z][a-z]?)(\d*)', formula) from position i: the matches
\* left to right, each <<element, digits>>; a character that starts no
\* match is skipped
RECURSIVE FindAll(_, _)
FindAll(f, i) ==
    IF i > Len(f) THEN <<>>
    ELSE IF f[i] \in UpperCase
    THEN LET j == IF i + 1 <= Len(f) /\ f[i + 1] \in LowerCase THEN i + 2 ELSE i + 1
             k == DigitsEnd(f, j)
         IN  << <<SubSeq(f, i, j - 1), SubSeq(f, j, k - 1)>> >> \o FindAll(f, k)
    ELSE FindAll(f, i + 1)

\* A dict is a sequence of <<key, value>> pairs with distinct keys, in
\* insertion order.
Keys(d) == {d[i][1] : i \in 1..Len(d)}
Lookup(d, k) == d[CHOOSE i \in 1..Len(d) : d[i][1] = k][2]

\* d[k] = v
DictSet(d, k, v) ==
    IF k \in Keys(d)
    THEN [i \in 1..Len(d) |-> IF d[i][1] = k THEN <<k, v>> ELSE d[i]]
    ELSE Append(d, <<k, v>>)

RECURSIVE CompositionOf(_, _)
CompositionOf(matches, acc) ==
    IF matches = <<>> THEN acc
    ELSE LET element == Head(matches)[1]
             count   == Head(matches)[2]
         IN  CompositionOf(Tail(matches),
                 DictSet(acc, element, IF count # <<>> THEN ParseInt(count) ELSE 1))

_parse_formula(formula) == CompositionOf(FindAll(formula, 1), <<>>)

ChemicalCompound(formula, molar_mass) ==
    [formula |-> formula, molar_mass |-> molar_mass,
     composition |-> _parse_formula(formula)]

\* the keys of atomic_masses, each with its mass in thousandths of g/mol
MilliMasses ==
    (<<"H">> :> 1008) @@ (<<"H", "e">> :> 4003) @@ (<<"L", "i">> :> 6940) @@
    (<<"B", "e">> :> 9012) @@ (<<"B">> :> 10810) @@ (<<"C">> :> 12010) @@
    (<<"N">> :> 14010) @@ (<<"O">> :> 16000) @@ (<<"F">> :> 19000) @@
    (<<"N", "e">> :> 20180) @@ (<<"N", "a">> :> 22990) @@ (<<"M", "g">> :> 24310) @@
    (<<"A", "l">> :> 26980) @@ (<<"S", "i">> :> 28090) @@ (<<"P">> :> 30970) @@
    (<<"S">> :> 32060) @@ (<<"C", "l">> :> 35450) @@ (<<"A", "r">> :> 39950) @@
    (<<"K">> :> 39100) @@ (<<"C", "a">> :> 40080) @@ (<<"I">> :> 126900)

\* atomic_masses[el], the float nearest the decimal of the table
atomic_masses(el) == FDivInt(FromInt(MilliMasses[el]), 1000)

DefaultMass == FromInt(100)

\* str.isalpha()
IsAlpha(str) == str # <<>> /\ \A i \in 1..Len(str) : str[i] \in UpperCase \cup LowerCase

\* the loop of lines 69-78 over composition.items(): the total, or raised
RECURSIVE SumMasses(_, _)
SumMasses(items, total) ==
    IF items = <<>> THEN [raised |-> FALSE, total |-> total]
    ELSE IF Head(items)[1] \in DOMAIN MilliMasses \/ IsAlpha(Head(items)[1])
    THEN SumMasses(Tail(items),
             FAdd(total, FMul(IF Head(items)[1] \in DOMAIN MilliMasses
                              THEN atomic_masses(Head(items)[1])
                              ELSE DefaultMass,
                              FromInt(Head(items)[2]))))
    ELSE [raised |-> TRUE, total |-> total]

\* lines 78-81: sum is what the loop gave
CacheTotal(self, sum) ==
    IF sum.raised THEN [self |-> self, ret |-> None]
    ELSE [self |-> [self EXCEPT !.molar_mass = Some(sum.total)], ret |-> Some(sum.total)]

\* calculate_molar_mass without the early return of lines 58-59: the mass
\* is computed on every call
calculate_molar_mass_NoCache(self) ==
    IF /\ Len(self.composition) = 1
       /\ Len(self.composition[1][1]) = 1
       /\ self.composition[1][1] \notin DOMAIN MilliMasses
       /\ IsAlpha(self.composition[1][1])
    THEN [self |-> [self EXCEPT !.molar_mass = Some(DefaultMass)], ret |-> Some(DefaultMass)]
    ELSE CacheTotal(self, SumMasses(self.composition, FZero))

\* self.calculate_molar_mass(): the compound afterwards and what the call
\* returned, None when it raised ValueError
calculate_molar_mass(self) ==
    IF self.molar_mass # None
    THEN [self |-> self, ret |-> self.molar_mass]
    ELSE IF /\ Len(self.composition) = 1
            /\ Len(self.composition[1][1]) = 1
            /\ self.composition[1][1] \notin DOMAIN MilliMasses
            /\ IsAlpha(self.composition[1][1])
    THEN [self |-> [self EXCEPT !.molar_mass = Some(DefaultMass)], ret |-> Some(DefaultMass)]
    ELSE CacheTotal(self, SumMasses(self.composition, FZero))

----------------------------------------------------------------------------
(* reaction.py.  A compound object is known by its identity (the class      *)
(* defines neither __eq__ nor __hash__): a natural number here.  A dict     *)
(* that is only looked up is a function; one that is iterated is a          *)
(* sequence of pairs.                                                       *)

Reaction(reactants, products, rate_constant) ==
    [reactants |-> reactants, products |-> products,
     rate_constant |-> rate_constant, reaction_order |-> 1]

\* the loop of lines 50-55 over reactants.items()
RECURSIVE RateLoop(_, _, _)
RateLoop(items, concs, rate) ==
    IF items = <<>> THEN rate
    ELSE LET compound == Head(items)[1]
             coeff    == Head(items)[2]
         IN  IF compound \in DOMAIN concs
             THEN RateLoop(Tail(items), concs, FMul(rate, FPow(concs[compound], coeff)))
             ELSE FZero

\* calculate_rate with line 55 replaced by `continue`: an absent reactant
\* is left out of the product
RECURSIVE RateLoop_SkipAbsent(_, _, _)
RateLoop_SkipAbsent(items, concs, rate) ==
    IF items = <<>> THEN rate
    ELSE RateLoop_SkipAbsent(Tail(items), concs,
             IF Head(items)[1] \in DOMAIN concs
             THEN FMul(rate, FPow(concs[Head(items)[1]], Head(items)[2]))
             ELSE rate)

calculate_rate_SkipAbsent(self, concs) ==
    RateLoop_SkipAbsent(self.reactants, concs, self.rate_constant)

\* calculate_rate with the loop of lines 50-55 stopped after the first
\* reactant
calculate_rate_FirstOnly(self, concs) ==
    RateLoop(SubSeq(self.reactants, 1, Min(1, Len(self.reactants))), concs,
             self.rate_constant)

calculate_rate(self, concs) == RateLoop(self.reactants, concs, self.rate_constant)

RECURSIVE SetAll(_, _, _)
SetAll(d, items, sign) ==
    IF items = <<>> THEN d
    ELSE SetAll(DictSet(d, Head(items)[1], sign * Head(items)[2]), Tail(items), sign)

\* get_stoichiometry_matrix with line 74 as `+=`: a product's coefficient is
\* added to the entry its compound has as a reactant
RECURSIVE NetAll(_, _)
NetAll(d, items) ==
    IF items = <<>> THEN d
    ELSE NetAll(DictSet(d, Head(items)[1],
                        (IF Head(items)[1] \in Keys(d) THEN Lookup(d, Head(items)[1]) ELSE 0)
                            + Head(items)[2]),
                Tail(items))

get_stoichiometry_matrix_Net(self) == NetAll(SetAll(<<>>, self.reactants, -1), self.products)

get_stoichiometry_matrix(self) == SetAll(SetAll(<<>>, self.reactants, -1), self.products, 1)

RECURSIVE CompoundsOf(_)
CompoundsOf(reactions) ==
    IF reactions = <<>> THEN {}
    ELSE Keys(Head(reactions).reactants) \cup Keys(Head(reactions).products)
             \cup CompoundsOf(Tail(reactions))

ReactionSystem(reactions) ==
    [reactions |-> reactions, all_compounds |-> CompoundsOf(reactions)]

\* initial_concentrations.get(compound, 0.0)
GetOrZero(d, k) == IF k \in DOMAIN d THEN d[k] ELSE FZero

\* InitialArrays with the default of line 120 as 1.0
InitialArrays_DefaultOne(self, initial) ==
    [compound \in self.all_compounds |->
        <<IF compound \in DOMAIN initial THEN initial[compound] ELSE FromInt(1)>>]

\* lines 119-121
InitialArrays(self, initial) ==
    [compound \in self.all_compounds |-> <<GetOrZero(initial, compound)>>]

\* lines 136-137 for one reaction's stoichiometry
RECURSIVE AddChanges(_, _, _)
AddChanges(rate_changes, stoich, reaction_rate) ==
    IF stoich = <<>> THEN rate_changes
    ELSE LET compound == Head(stoich)[1]
             coeff    == Head(stoich)[2]
         IN  AddChanges([rate_changes EXCEPT ![compound] =
                             FAdd(@, FMul(FromInt(coeff), reaction_rate))],
                        Tail(stoich), reaction_rate)

\* lines 132-137: every rate is taken at current_conc
RECURSIVE RateChanges(_, _, _)
RateChanges(reactions, current_conc, rate_changes) ==
    IF reactions = <<>> THEN rate_changes
    ELSE RateChanges(Tail(reactions), current_conc,
             AddChanges(rate_changes, get_stoichiometry_matrix(Head(reactions)),
                        calculate_rate(Head(reactions), current_conc)))

Last(q) == q[Len(q)]

\* EulerStep with the update of lines 140-144 moved into the loop of line
\* 132: each reaction's change is applied to current_conc before the rate
\* of the next reaction is taken
RECURSIVE ApplyInTurn(_, _, _)
ApplyInTurn(reactions, current_conc, dt) ==
    IF reactions = <<>> THEN current_conc
    ELSE ApplyInTurn(Tail(reactions),
             [compound \in DOMAIN current_conc |->
                 FMax0(FAdd(current_conc[compound],
                            FMul(AddChanges([d \in DOMAIN current_conc |-> FZero],
                                            get_stoichiometry_matrix(Head(reactions)),
                                            calculate_rate(Head(reactions), current_conc))[compound],
                                 dt)))],
             dt)

EulerStep_InTurn(self, concs, dt) ==
    [compound \in self.all_compounds |->
        Append(concs[compound],
               ApplyInTurn(self.reactions,
                           [d \in self.all_compounds |-> Last(concs[d])], dt)[compound])]

\* EulerStep without the max(0.0, ...) of line 143
EulerStep_NoClamp(self, concs, dt) ==
    LET current_conc == [compound \in self.all_compounds |-> Last(concs[compound])]
        rate_changes == RateChanges(self.reactions, current_conc,
                                    [compound \in self.all_compounds |-> FZero])
    IN  [compound \in self.all_compounds |->
            Append(concs[compound],
                   FAdd(current_conc[compound], FMul(rate_changes[compound], dt)))]

\* lines 125-144, one pass of the loop: concs with one more entry per list
EulerStep(self, concs, dt) ==
    LET current_conc == [compound \in self.all_compounds |-> Last(concs[compound])]
        rate_changes == RateChanges(self.reactions, current_conc,
                                    [compound \in self.all_compounds |-> FZero])
    IN  [compound \in self.all_compounds |->
            Append(concs[compound],
                   FMax0(FAdd(current_conc[compound], FMul(rate_changes[compound], dt))))]

\* dt of the pass with Python's i = n (time_points is 0-based there)
StepSize(tps, n) == FSub(tps[n + 1], tps[n])

\* the loop of lines 124-144 from Python's i = n on
RECURSIVE EulerLoop(_, _, _, _)
EulerLoop(self, concs, tps, n) ==
    IF n >= Len(tps) THEN concs
    ELSE EulerLoop(self, EulerStep(self, concs, StepSize(tps, n)), tps, n + 1)

\* self.simulate(initial, tps), all of it
simulate(self, initial, tps) == EulerLoop(self, InitialArrays(self, initial), tps, 1)

----------------------------------------------------------------------------
(* chem_calculator.py.  calc.objs is the heap of the compounds made so far: *)
(* compound k is calc.objs[k].  calc.compounds maps a formula to            *)
(* [compound, concentration]; calc.reactions is the list of reactions.      *)

NewCalculator == [objs |-> <<>>, compounds |-> <<>>, reactions |-> <<>>]

\* self.add_compound(formula, name, concentration) once the compound is
\* made and calculate_molar_mass() called: made is what that call gave
Register(self, formula, concentration, made) ==
    IF made.ret = None THEN [self |-> self, raised |-> TRUE]
    ELSE [self |-> [self EXCEPT
                      !.objs = Append(@, made.self),
                      !.compounds = (formula :> [compound |-> Len(self.objs) + 1,
                                                 concentration |-> concentration]) @@ @],
          raised |-> FALSE]

\* self.add_compound(formula, name, concentration); calculate_molar_mass
\* raising leaves the calculator as it was
add_compound(self, formula, concentration) ==
    Register(self, formula, concentration,
             calculate_molar_mass(ChemicalCompound(formula, None)))

\* lines 70-71 or 76-77
EnsureCompound(self, formula) ==
    IF formula \in DOMAIN self.compounds THEN [self |-> self, raised |-> FALSE]
    ELSE add_compound(self, formula, FZero)

\* a loop of lines 69-72 or 75-78 over zip(formulas, coeffs) from pair n on:
\* the calculator and the dict built
RECURSIVE BuildSide(_, _, _, _, _)
RECURSIVE BuildEntry(_, _, _, _, _)
BuildEntry(ensured, formulas, coeffs, n, side) ==
    IF ensured.raised THEN [self |-> ensured.self, side |-> side, raised |-> TRUE]
    ELSE BuildSide(ensured.self, formulas, coeffs, n + 1,
             DictSet(side, ensured.self.compounds[formulas[n]].compound, coeffs[n]))

BuildSide(self, formulas, coeffs, n, side) ==
    IF n > Min(Len(formulas), Len(coeffs)) THEN [self |-> self, side |-> side, raised |-> FALSE]
    ELSE BuildEntry(EnsureCompound(self, formulas[n]), formulas, coeffs, n, side)

\* line 80-81, rs and ps being what the two loops gave
AppendReaction(rs, ps, rate_constant) ==
    IF ps.raised THEN [self |-> ps.self, raised |-> TRUE]
    ELSE [self |-> [ps.self EXCEPT
                      !.reactions = Append(@, Reaction(rs.side, ps.side, rate_constant))],
          raised |-> FALSE]

\* lines 74-81, rs being what the loop over the reactants gave
AddProducts(rs, product_formulas, product_coeffs, rate_constant) ==
    IF rs.raised THEN [self |-> rs.self, raised |-> TRUE]
    ELSE AppendReaction(rs, BuildSide(rs.self, product_formulas, product_coeffs, 1, <<>>),
                        rate_constant)

\* self.add_reaction(...)
add_reaction(self, reactant_formulas, reactant_coeffs, product_formulas, product_coeffs, rate_constant) ==
    AddProducts(BuildSide(self, reactant_formulas, reactant_coeffs, 1, <<>>),
                product_formulas, product_coeffs, rate_constant)

\* np.linspace(0, stop, num).tolist(): num evenly spaced floats, the k-th
\* (from 0) being k * (stop / (num - 1)) and the last being stop itself
Linspace(stop, num) ==
    IF num = 0 THEN <<>>
    ELSE IF num = 1 THEN <<FZero>>
    ELSE LET step == FDivInt(stop, num - 1)
         IN  [k \in 1..num |-> IF k = num THEN stop ELSE FMul(FromInt(k - 1), step)]

\* lines 102-104
InitialOf(self) ==
    LET registered == {self.compounds[f].compound : f \in DOMAIN self.compounds}
    IN  [compound \in registered |->
            self.compounds[CHOOSE f \in DOMAIN self.compounds :
                               self.compounds[f].compound = compound].concentration]

\* how a simulation call ends: raised, or returned time_points and results
Raised(via) == [via |-> via, raised |-> TRUE, time_points |-> None, results |-> None]
Returned(via, tps, results) ==
    [via |-> via, raised |-> FALSE, time_points |-> Some(tps), results |-> Some(results)]

\* simulate_reactions without the guard of lines 95-96
simulate_reactions_NoGuard(self, time_end, time_steps) ==
    LET tps == Linspace(time_end, time_steps)
    IN  Returned("simulate_reactions", tps,
                 simulate(ReactionSystem(self.reactions), InitialOf(self), tps))

\* self.simulate_reactions(time_end, time_steps)
simulate_reactions(self, time_end, time_steps) ==
    IF self.reactions = <<>> THEN Raised("simulate_reactions")
    ELSE LET tps == Linspace(time_end, time_steps)
         IN  Returned("simulate_reactions", tps,
                      simulate(ReactionSystem(self.reactions), InitialOf(self), tps))

----------------------------------------------------------------------------
(* The parts of the state a specification leaves alone                      *)

IdleCompound == cobj = None /\ cinit = None /\ creturns = <<>>
IdleReaction == rx = None /\ rate_prev = None /\ rate_last = None /\ stoich_ret = None
IdleCalc == calc = None /\ call = None
IdleSim ==
    /\ system = None /\ initial_concentrations = <<>> /\ time_points = <<>>
    /\ concentrations = <<>> /\ idx = 0 /\ sim_pc = "idle"
    /\ result = None /\ prev_result = None /\ calls = 0

----------------------------------------------------------------------------
(* Calls of calculate_molar_mass on one compound                            *)

MaxFormulaLen == 3
MaxMassCalls == 2

PartialMaps(D, V) == UNION {[K -> V] : K \in SUBSET D}

RECURSIVE SeqsUpTo(_, _)
SeqsUpTo(S, n) ==
    IF n = 0 THEN {<<>>}
    ELSE LET shorter == SeqsUpTo(S, n - 1)
         IN  shorter \cup {Append(q, x) : q \in {r \in shorter : Len(r) = n - 1}, x \in S}

\* the characters the formulas are drawn from
Alphabet == {"A", "H", "N", "O", "a", "e", "0", "2", "$"}

Formulas == SeqsUpTo(Alphabet, MaxFormulaLen)

\* molar_mass as passed to the constructor: not given, or 18.5
SuppliedMasses == {None, Some(Dyadic(37, -1))}

InitCompound ==
    /\ cobj \in {ChemicalCompound(f, mm) : f \in Formulas, mm \in SuppliedMasses}
    /\ cinit = cobj
    /\ creturns = <<>>
    /\ IdleReaction /\ IdleCalc /\ IdleSim

CallCalculateMolarMass ==
    /\ Len(creturns) < MaxMassCalls
    /\ LET r == calculate_molar_mass(cobj)
       IN  /\ cobj' = r.self
           /\ creturns' = Append(creturns, r.ret)
    /\ UNCHANGED <<cinit, reaction_vars, calc_vars, sim_vars>>

NextCompound == CallCalculateMolarMass

SpecCompound == InitCompound /\ [][NextCompound]_vars

----------------------------------------------------------------------------
(* Calls of calculate_rate and get_stoichiometry_matrix on one reaction     *)

MaxCoeff == 2

RxCompounds == {1, 2}

\* the dicts compound -> coefficient: the compounds in any order
CoeffDicts ==
    {d \in SeqsUpTo(RxCompounds \X (1..MaxCoeff), Cardinality(RxCompounds)) :
        Cardinality(Keys(d)) = Len(d)}

\* 0.1
RateConstants == {FDivInt(FromInt(1), 10)}

\* the mappings passed to calculate_rate: any compounds, each at 0.5 or 3.0
ConcentrationMaps == PartialMaps(RxCompounds, {Dyadic(1, -1), FromInt(3)})

InitReaction ==
    /\ rx \in {Some(Reaction(rs, ps, k)) : rs \in CoeffDicts, ps \in CoeffDicts,
                                           k \in RateConstants}
    /\ rate_prev = None /\ rate_last = None /\ stoich_ret = None
    /\ IdleCompound /\ IdleCalc /\ IdleSim

CallCalculateRate ==
    /\ \E m \in ConcentrationMaps :
          rate_last' = Some([arg |-> m, ret |-> calculate_rate(rx[1], m)])
    /\ rate_prev' = IF rate_last = None THEN None
                    ELSE Some([missing |-> Keys(rx[1].reactants) \ DOMAIN rate_last[1].arg,
                               ret |-> rate_last[1].ret])
    /\ UNCHANGED <<rx, stoich_ret, compound_vars, calc_vars, sim_vars>>

CallGetStoichiometryMatrix ==
    /\ stoich_ret' = Some(get_stoichiometry_matrix(rx[1]))
    /\ UNCHANGED <<rx, rate_prev, rate_last, compound_vars, calc_vars, sim_vars>>

NextReaction == CallCalculateRate \/ CallGetStoichiometryMatrix

SpecReaction == InitReaction /\ [][NextReaction]_vars

----------------------------------------------------------------------------
(* ReactionSystem.simulate, pass by pass                                    *)

MaxPoints == 3
MaxSimCalls == 2

\* lines 119-121: a call starts
SimulateBegin ==
    /\ sim_pc \in {"ready", "returned"}
    /\ calls < MaxSimCalls
    /\ calls' = calls + 1
    /\ prev_result' = result
    /\ result' = None
    /\ concentrations' = InitialArrays(system[1], initial_concentrations)
    /\ idx' = 1
    /\ sim_pc' = "loop"
    /\ UNCHANGED <<sim_inputs, compound_vars, reaction_vars, calc_vars>>

\* SimulateStep with current_conc aliased to initial_concentrations: the
\* pass stores the new concentrations in the caller's mapping too
SimulateStep_WritesBack ==
    /\ sim_pc = "loop"
    /\ idx < Len(time_points)
    /\ concentrations' = EulerStep(system[1], concentrations, StepSize(time_points, idx))
    /\ initial_concentrations' =
          [c \in DOMAIN initial_concentrations \cup system[1].all_compounds |->
              IF c \in system[1].all_compounds THEN Last(concentrations'[c])
              ELSE initial_concentrations[c]]
    /\ idx' = idx + 1
    /\ UNCHANGED <<system, time_points, sim_pc, result, prev_result, calls,
                   compound_vars, reaction_vars, calc_vars>>

\* lines 124-144: one pass of the loop
SimulateStep ==
    /\ sim_pc = "loop"
    /\ idx < Len(time_points)
    /\ concentrations' = EulerStep(system[1], concentrations, StepSize(time_points, idx))
    /\ idx' = idx + 1
    /\ UNCHANGED <<sim_inputs, sim_pc, result, prev_result, calls,
                   compound_vars, reaction_vars, calc_vars>>

\* line 146: range(1, len(time_points)) is exhausted
SimulateReturn ==
    /\ sim_pc = "loop"
    /\ idx >= Len(time_points)
    /\ result' = Some(concentrations)
    /\ sim_pc' = "returned"
    /\ UNCHANGED <<sim_inputs, concentrations, idx, prev_result, calls,
                   compound_vars, reaction_vars, calc_vars>>

NextSim == SimulateBegin \/ SimulateStep \/ SimulateReturn

\* the systems simulated: every sublist of four reactions over compounds
\* 1, 2, 3, in their order
ReactionPool ==
    << Reaction(<< <<1, 1>>, <<2, 1>> >>, << <<3, 1>> >>, Dyadic(1, -1)),
       Reaction(<< <<1, 2>> >>, << <<2, 1>> >>, FDivInt(FromInt(1), 10)),
       Reaction(<< <<3, 1>> >>, << <<3, 2>>, <<1, 1>> >>, FromInt(1)),
       Reaction(<<>>, << <<2, 1>> >>, Dyadic(1, -2)) >>

RECURSIVE SubLists(_)
SubLists(q) ==
    IF q = <<>> THEN {<<>>}
    ELSE LET rest == SubLists(Tail(q))
         IN  rest \cup {<<Head(q)>> \o r : r \in rest}

\* lines 244-246 of chem_calculator.py: a calculator holding A at 1.0, B at
\* 0.5 and C at 0.0, the compounds 1, 2 and 3 of its heap
MainCompounds ==
    LET c1 == add_compound(NewCalculator, <<"A">>, FromInt(1)).self
        c2 == add_compound(c1, <<"B">>, Dyadic(1, -1)).self
    IN  add_compound(c2, <<"C">>, FZero).self

\* the compounds the simulated reactions are over: those of MainCompounds
SimCompounds == DOMAIN MainCompounds.objs

\* -1.0, 0.5, 2.0
InitialValues == {FromInt(-1), Dyadic(1, -1), FromInt(2)}

\* 0, 0.5, 1, ... and 0, 2, 1.5, 5, 3, ...: the second steps backwards
TimeLines ==
    { [k \in 1..(MaxPoints + 1) |-> Dyadic(k - 1, -1)],
      [k \in 1..(MaxPoints + 1) |-> IF k % 2 = 1 THEN Dyadic(3 * (k - 1), -2)
                                    ELSE Dyadic(3 * (k - 1) + 1, -1)] }

TimePointLists == {SubSeq(line, 1, n) : line \in TimeLines, n \in 0..MaxPoints}

InitSim ==
    /\ system \in {Some(ReactionSystem(rs)) : rs \in SubLists(ReactionPool)}
    /\ initial_concentrations \in PartialMaps(SimCompounds, InitialValues)
    /\ time_points \in TimePointLists
    /\ concentrations = <<>> /\ idx = 0 /\ sim_pc = "ready"
    /\ result = None /\ prev_result = None /\ calls = 0
    /\ calc = Some(MainCompounds) /\ call = None
    /\ IdleCompound /\ IdleReaction

Spec == InitSim /\ [][NextSim]_vars

----------------------------------------------------------------------------
(* Calls on one ChemicalCalculator                                          *)

MaxObjs == 3
MaxReactions == 2

CalcFormulas == {<<"A">>, <<"B">>}

\* 2.0
CalcConcentrations == {FromInt(2)}

\* the add_reaction calls made: A -> B; A + 2 B -> 3 A; and one whose lists
\* repeat a formula and differ in length
ReactionCalls ==
    { [rf |-> << <<"A">> >>, rc |-> <<1>>, pf |-> << <<"B">> >>, pc |-> <<1>>,
       k |-> Dyadic(1, -1)],
      [rf |-> << <<"A">>, <<"B">> >>, rc |-> <<1, 2>>, pf |-> << <<"A">> >>, pc |-> <<3>>,
       k |-> FDivInt(FromInt(1), 10)],
      [rf |-> << <<"B">>, <<"B">> >>, rc |-> <<1, 2>>, pf |-> << <<"A">>, <<"B">> >>,
       pc |-> <<1>>, k |-> FromInt(1)] }

CalcTimeEnd == FromInt(2)
CalcTimeSteps == {1, 3}

InitCalc ==
    /\ calc = Some(NewCalculator)
    /\ call = None
    /\ IdleCompound /\ IdleReaction /\ IdleSim

AddCompound ==
    /\ Len(calc[1].objs) < MaxObjs
    /\ \E f \in CalcFormulas, c \in CalcConcentrations :
          calc' = Some(add_compound(calc[1], f, c).self)
    /\ call' = None
    /\ UNCHANGED <<compound_vars, reaction_vars, sim_vars>>

AddReaction ==
    /\ Len(calc[1].reactions) < MaxReactions
    /\ \E a \in ReactionCalls :
          LET added == add_reaction(calc[1], a.rf, a.rc, a.pf, a.pc, a.k).self
          IN  /\ Len(added.objs) <= MaxObjs
              /\ calc' = Some(added)
    /\ call' = None
    /\ UNCHANGED <<compound_vars, reaction_vars, sim_vars>>

SimulateReactions ==
    /\ \E n \in CalcTimeSteps : call' = Some(simulate_reactions(calc[1], CalcTimeEnd, n))
    /\ UNCHANGED <<calc, compound_vars, reaction_vars, sim_vars>>

\* a caller of the engine itself:
\* ReactionSystem(calculator.reactions).simulate(initial, time_points)
SimulateDirectly ==
    /\ \E n \in CalcTimeSteps :
          LET tps == Linspace(CalcTimeEnd, n)
          IN  call' = Some(Returned("ReactionSystem.simulate", tps,
                               simulate(ReactionSystem(calc[1].reactions),
                                        InitialOf(calc[1]), tps)))
    /\ UNCHANGED <<calc, compound_vars, reaction_vars, sim_vars>>

NextCalc == AddCompound \/ AddReaction \/ SimulateReactions \/ SimulateDirectly

SpecCalc == InitCalc /\ [][NextCalc]_vars

----------------------------------------------------------------------------
(* Scenario A: the default example of main(), lines 243-255                 *)

DefaultTime == 100
DefaultSteps == 1000

\* lines 249-252
MainCalculator ==
    add_reaction(MainCompounds, << <<"A">>, <<"B">> >>, <<1, 1>>, << <<"C">> >>, <<1>>,
                 FDivInt(FromInt(1), 10)).self

\* the state in which simulate_reactions(100.0, 1000) calls simulate
InitScenarioA ==
    /\ calc = Some(MainCalculator)
    /\ call = None
    /\ system = Some(ReactionSystem(MainCalculator.reactions))
    /\ initial_concentrations = InitialOf(MainCalculator)
    /\ time_points = Linspace(FromInt(DefaultTime), DefaultSteps)
    /\ concentrations = <<>> /\ idx = 0 /\ sim_pc = "ready"
    /\ result = None /\ prev_result = None /\ calls = 0
    /\ IdleCompound /\ IdleReaction

SpecScenarioA == InitScenarioA /\ [][NextSim]_vars

----------------------------------------------------------------------------
(* The claims                                                               *)

HasReturned == sim_pc = "returned"

\* C1: for every system, every initial_concentrations mapping and every
\* time_points list of length >= 2, simulate returns, for every compound a
\* reaction references (and for no other key), a list of exactly
\* len(time_points) entries whose first is initial_concentrations.get(c, 0.0).
C1_LengthAndStart ==
    (HasReturned /\ Len(time_points) >= 2) =>
        /\ DOMAIN result[1] = CompoundsOf(system[1].reactions)
        /\ \A c \in CompoundsOf(system[1].reactions) :
              /\ Len(result[1][c]) = Len(time_points)
              /\ result[1][c][1] = IF c \in DOMAIN initial_concentrations
                                   THEN initial_concentrations[c]
                                   ELSE FZero

\* a call over three time points has returned the lists of a compound that
\* has an initial concentration and of one that has none
C1_Witness ==
    /\ HasReturned /\ Len(time_points) = 3
    /\ \E c, d \in DOMAIN result[1] :
          /\ c \in DOMAIN initial_concentrations
          /\ d \notin DOMAIN initial_concentrations
          /\ Len(result[1][c]) = 3 /\ Len(result[1][d]) = 3

\* C2 as stated: every value simulate returns, at every index including
\* index 0, is >= 0.0.
C2_NonNegativeEverywhere ==
    HasReturned =>
        \A c \in DOMAIN result[1] :
            \A i \in 1..Len(result[1][c]) : FLe(FZero, result[1][c][i])

\* C2, amended: every value simulate returns at an index >= 1 is >= 0.0, and
\* the value at index 0 is >= 0.0 when the initial concentration of the
\* compound (0.0 if it has none) is >= 0.0.  (TLA+ sequences start at 1.)
C2_NonNegativeAfterStart ==
    HasReturned =>
        \A c \in DOMAIN result[1] :
            /\ \A i \in 2..Len(result[1][c]) : FLe(FZero, result[1][c][i])
            /\ (c \in DOMAIN initial_concentrations =>
                    FLe(FZero, initial_concentrations[c]))
                   => \A i \in 1..Len(result[1][c]) : FLe(FZero, result[1][c][i])

\* a returned trajectory starts below zero, and one falls from a positive
\* value to exactly 0.0, which is where the clamp of line 143 acted
C2_Witness ==
    /\ HasReturned
    /\ \E c \in DOMAIN result[1] :
          Len(result[1][c]) >= 2 /\ FLt(result[1][c][1], FZero)
    /\ \E c \in DOMAIN result[1] :
          \E i \in 2..Len(result[1][c]) :
              FLt(FZero, result[1][c][i - 1]) /\ result[1][c][i] = FZero

SimulatedEmpty == call # None /\ calc[1].reactions = <<>>

\* C3 as stated: with zero reactions, both simulate_reactions and
\* ReactionSystem.simulate on the empty reaction list fail.
C3_EmptyRejected == SimulatedEmpty => call[1].raised

\* C3, amended: with zero reactions simulate_reactions raises and no time
\* point is computed; ReactionSystem.simulate on a system built from the
\* empty reaction list does not fail, it returns the empty mapping.
C3_EmptyRejectedByCalculator ==
    SimulatedEmpty =>
        IF call[1].via = "simulate_reactions"
        THEN call[1].raised /\ call[1].time_points = None /\ call[1].results = None
        ELSE ~call[1].raised /\ DOMAIN call[1].results[1] = {}

\* simulate_reactions was called on a calculator that holds a compound and
\* no reaction
C3_Witness ==
    /\ SimulatedEmpty
    /\ call[1].via = "simulate_reactions" /\ call[1].raised
    /\ DOMAIN calc[1].compounds # {}

\* C4: after any add_compound and add_reaction calls, the result of
\* simulate_reactions holds one trajectory per distinct formula (no two
\* keys of the result are compounds of the same formula), and each
\* trajectory starts at the concentration registered for its formula.
C4_OneTrajectoryPerFormula ==
    (call # None /\ call[1].via = "simulate_reactions" /\ ~call[1].raised) =>
        LET results == call[1].results[1]
            FormulaOf(c) == calc[1].objs[c].formula
        IN  /\ \A c, d \in DOMAIN results : FormulaOf(c) = FormulaOf(d) => c = d
            /\ \A c \in DOMAIN results :
                  results[c][1] = calc[1].compounds[FormulaOf(c)].concentration

RECURSIVE PowerProduct(_, _, _)
PowerProduct(items, concs, acc) ==
    IF items = <<>> THEN acc
    ELSE PowerProduct(Tail(items), concs,
                      FMul(acc, FPow(concs[Head(items)[1]], Head(items)[2])))

C7_Stateless ==
    [][ /\ UNCHANGED <<system, initial_concentrations, time_points, calc>>
        /\ (sim_pc' = "returned" /\ prev_result' # None) => result' = prev_result'
      ]_vars

\* a second call over three time points has returned, with trajectories
C7_Witness ==
    /\ HasReturned /\ calls = 2 /\ prev_result # None
    /\ Len(time_points) = 3
    /\ DOMAIN result[1] # {}

CompoundNamed(f) == calc[1].compounds[f].compound

\* C8: in scenario A every entry of the trajectory of C is at least the
\* entry before it and at most min(initial [A], initial [B]) = 0.5, and the
\* trajectory returned has 1000 entries.
C8_ProductMonotoneBounded ==
    /\ sim_pc \in {"loop", "returned"} =>
          /\ FLe(Last(concentrations[CompoundNamed(<<"C">>)]),
                 initial_concentrations[CompoundNamed(<<"A">>)])
          /\ FLe(Last(concentrations[CompoundNamed(<<"C">>)]),
                 initial_concentrations[CompoundNamed(<<"B">>)])
          /\ idx >= 2 =>
                FLe(concentrations[CompoundNamed(<<"C">>)][idx - 1],
                    concentrations[CompoundNamed(<<"C">>)][idx])
    /\ HasReturned =>
          /\ result[1] = concentrations
          /\ Len(result[1][CompoundNamed(<<"C">>)]) = DefaultSteps

\* the 1000 points from 0 to 100 are simulated and C has grown from 0.0 to
\* more than 0.25
C8_Witness ==
    /\ HasReturned
    /\ Len(time_points) = DefaultSteps
    /\ time_points[1] = FZero /\ Last(time_points) = FromInt(DefaultTime)
    /\ initial_concentrations[CompoundNamed(<<"B">>)] = Dyadic(1, -1)
    /\ result[1][CompoundNamed(<<"C">>)][1] = FZero
    /\ FLt(Dyadic(1, -2), Last(result[1][CompoundNamed(<<"C">>)]))

\* the formula is a concatenation of tokens: capital, optional small
\* letter, optional digits
RECURSIVE TokensLen(_)
TokensLen(matches) ==
    IF matches = <<>> THEN 0
    ELSE Len(Head(matches)[1]) + Len(Head(matches)[2]) + TokensLen(Tail(matches))

MatchesGrammar(f) == f # <<>> /\ TokensLen(FindAll(f, 1)) = Len(f)

\* C9: for a formula that is not a concatenation of well-formed tokens (a
\* character that is no letter or digit, a small letter or digit with no
\* capital before it, the empty formula), calculate_molar_mass on the
\* compound made from it raises instead of returning a molar mass.
C9_MalformedRaises ==
    (~MatchesGrammar(cinit.formula) /\ cinit.molar_mass = None /\ creturns # <<>>)
        => creturns[1] = None

\* C10: for a formula matching the token grammar no call of
\* calculate_molar_mass raises, every call returns what the first returned,
\* which is the mass given at construction if one was, the compound holds
\* that value as its mass from the first call on, and its formula and
\* composition stay what construction made them.
C10_MolarMassIdempotent ==
    MatchesGrammar(cinit.formula) =>
        /\ cobj.formula = cinit.formula
        /\ cobj.composition = cinit.composition
        /\ cobj.composition = _parse_formula(cinit.formula)
        /\ creturns = <<>> => cobj = cinit
        /\ \A i \in 1..Len(creturns) :
              creturns[i] # None /\ creturns[i] = creturns[1] /\ cobj.molar_mass = creturns[i]
        /\ (creturns # <<>> /\ cinit.molar_mass # None) => creturns[1] = cinit.molar_mass

\* calculate_molar_mass was called twice on a compound of two elements made
\* without a mass
C10_Witness ==
    /\ MatchesGrammar(cinit.formula)
    /\ cinit.molar_mass = None
    /\ Len(cinit.composition) = 2
    /\ Len(creturns) = 2

\* the sum, in the order of the reactions and starting from acc, of
\* stoichiometry[c] * rate over the reactions whose stoichiometry has c,
\* every rate taken on snapshot
RECURSIVE NetChange(_, _, _, _)
NetChange(reactions, c, snapshot, acc) ==
    IF reactions = <<>> THEN acc
    ELSE NetChange(Tail(reactions), c, snapshot,
             IF c \in Keys(get_stoichiometry_matrix(Head(reactions)))
             THEN FAdd(acc, FMul(FromInt(Lookup(get_stoichiometry_matrix(Head(reactions)), c)),
                                 calculate_rate(Head(reactions), snapshot)))
             ELSE acc)

\* the concentrations of all compounds at entry i of their lists
SnapshotAt(i) == [d \in DOMAIN concentrations |-> concentrations[d][i]]

\* C11: every entry after the first of every compound's list is the
\* explicit Euler step from the entries before it: max(0.0, previous +
\* dt * sum over the reactions of stoichiometry[c] * rate), dt being the
\* difference of the two time points, every rate taken on the previous
\* entries of all compounds, and a reaction whose stoichiometry lacks the
\* compound adding nothing.  (Entry i here is Python's index i - 1.)
C11_ExplicitEulerStep ==
    sim_pc \in {"loop", "returned"} =>
        \A c \in DOMAIN concentrations :
            \A i \in 2..Len(concentrations[c]) :
                concentrations[c][i] =
                    FMax0(FAdd(concentrations[c][i - 1],
                               FMul(FSub(time_points[i], time_points[i - 1]),
                                    NetChange(system[1].reactions, c, SnapshotAt(i - 1),
                                              FZero))))

\* a call over three time points has returned for a system of two or more
\* reactions; some compound changed in both steps and is absent from the
\* stoichiometry of one of the reactions
C11_Witness ==
    /\ HasReturned /\ Len(time_points) = 3
    /\ Len(system[1].reactions) >= 2
    /\ \E c \in DOMAIN result[1] :
          /\ result[1][c][2] # result[1][c][1]
          /\ result[1][c][3] # result[1][c][2]
          /\ FLt(FZero, result[1][c][3])
          /\ \E k \in 1..Len(system[1].reactions) :
                c \notin Keys(get_stoichiometry_matrix(system[1].reactions[k]))

====
